---- MODULE Spec2Model ----
(***************************************************************************)
(* twmap: TwmapProcessor (src/src/processor.ts) as a state machine.        *)
(*                                                                         *)
(* A class-string is a sequence of whitespace-separated tokens; a short    *)
(* name is one token.  A file on disk is the sequence of its class         *)
(* attribute occurrences, each static (a literal value) or dynamic (an     *)
(* expression).  The mapping is a JavaScript Map, kept here as the         *)
(* sequence of its entries in insertion order.                             *)
(***************************************************************************)
EXTENDS Integers, Sequences, FiniteSets, TLC

(* ------------------------------ bounds -------------------------------- *)

\* process() calls plus processor constructions in one behaviour
MaxRuns == 2
\* class attribute occurrences over all files of the initial disk
MaxOcc == 2
\* glob, parse, rewrite and stylesheet failures in one behaviour
MaxFaults == 1
MaxCalls == 4
MaxTotal == 30

(* ------------------------------ universe ------------------------------ *)

Files == {"a.html", "b.tsx"}
\* lexical order of the file paths
PathRank == [f \in Files |-> IF f = "a.html" THEN 1 ELSE 2]
UtilityTokens == {"flex", "p-4"}
StaticValues == {<<"flex", "p-4">>, <<"p-4", "flex">>, <<"flex">>}
DynamicValue == <<"computeClass()">>
OccPool == {[dyn |-> FALSE, val |-> v] : v \in StaticValues}
              \cup {[dyn |-> TRUE, val |-> DynamicValue]}
Modes == {"hash", "incremental", "readable"}
\* config.input: each pattern is given by the files it matches
InputChoices == { <<{"b.tsx"}, {"a.html"}>>,
                  <<{"a.html"}, {"a.html", "b.tsx"}>> }

(* ------------------------------ helpers ------------------------------- *)

Range(s) == {s[i] : i \in 1..Len(s)}
Prefixes(s) == {SubSeq(s, 1, n) : n \in 0..Len(s)}
\* all orders in which the elements of a set can be listed
Perms(S) == {p \in [1..Cardinality(S) -> S] : Range(p) = S}

RECURSIVE SumLen(_, _)
SumLen(d, S) == IF S = {} THEN 0
                ELSE LET f == CHOOSE x \in S : TRUE
                     IN Len(d[f]) + SumLen(d, S \ {f})

\* variant: an array instead of the Set, every match is appended
AppendAll(acc, xs) == acc \o xs

\* Set<string>.add over an array: append what is not there yet
RECURSIVE AddAll(_, _)
AddAll(acc, xs) == IF xs = <<>> THEN acc
                   ELSE AddAll(IF Head(xs) \in Range(acc) THEN acc
                               ELSE Append(acc, Head(xs)), Tail(xs))

(* ----------------------- Map<string,string> --------------------------- *)

MapHas(m, k) == \E i \in 1..Len(m) : m[i].original = k
MapGet(m, k) == m[CHOOSE i \in 1..Len(m) : m[i].original = k].generated
MapSet(m, k, v) ==
    IF MapHas(m, k)
    THEN [i \in 1..Len(m) |-> IF m[i].original = k
                                THEN [original |-> k, generated |-> v]
                                ELSE m[i]]
    ELSE Append(m, [original |-> k, generated |-> v])

(* ------------------ ClassNameGenerator (generator.ts) ----------------- *)

Prefix == "tw-"
\* number of distinct truncated fingerprints
HashSpace == 3
\* tokens kept by the truncation of a readable slug
MaxSlugTokens == 1
TokenCode(t) == IF t = "flex" THEN 1 ELSE IF t = "p-4" THEN 2 ELSE 0
TokenSlug(t) == IF t = "flex" THEN "flex" ELSE IF t = "p-4" THEN "p4" ELSE "x"

RECURSIVE Digest(_)
Digest(cs) == IF cs = <<>> THEN 0
              ELSE (TokenCode(Head(cs)) + Digest(Tail(cs))) % HashSpace

RECURSIVE SlugOf(_)
SlugOf(cs) == IF cs = <<>> THEN "" ELSE TokenSlug(Head(cs)) \o SlugOf(Tail(cs))

HashName(cs) == Prefix \o ToString(Digest(cs))
ReadableName(cs) ==
    Prefix \o SlugOf(SubSeq(cs, 1, IF Len(cs) < MaxSlugTokens
                                     THEN Len(cs) ELSE MaxSlugTokens))
IncrementalName(n) == Prefix \o ToString(n)

Suffixed(base, k) == base \o "-" \o ToString(k)
\* the base name, or the base name with the first free numeric suffix
Disambiguate(base, used) ==
    IF base \notin used THEN base
    ELSE Suffixed(base,
                  CHOOSE k \in 1..(Cardinality(used) + 1) :
                      /\ Suffixed(base, k) \notin used
                      /\ \A j \in 1..(k - 1) : Suffixed(base, j) \in used)

GenInit == [counter |-> 0, usedNames |-> {}, classMap |-> <<>>]

\* generate(class_string): the name, and the generator's state afterwards
GenerateClassName(g, mode, cs) ==
    IF MapHas(g.classMap, cs)
    THEN [name |-> MapGet(g.classMap, cs), gen |-> g]
    ELSE LET base == CASE mode = "hash" -> HashName(cs)
                       [] mode = "incremental" -> IncrementalName(g.counter)
                       [] OTHER -> ReadableName(cs)
             name == Disambiguate(base, g.usedNames)
         IN [name |-> name,
             gen  |-> [counter   |-> IF mode = "incremental"
                                     THEN g.counter + 1 ELSE g.counter,
                       usedNames |-> g.usedNames \cup {name},
                       classMap  |-> MapSet(g.classMap, cs, name)]]

(* ------------------------ FileParser (parser.ts) ---------------------- *)

\* a value that is a generated short name, not an authored class-string
IsShortName(v) == Len(v) = 1 /\ v[1] \notin UtilityTokens

\* variant: every attribute value is taken for a literal
CollectableAny(o) == ~IsShortName(o.val) \/ o.dyn
\* variant: a short name is collected like an authored class-string
CollectableShort(o) == ~o.dyn

\* a safe occurrence: a literal that is not already a short name
Collectable(o) == ~o.dyn /\ ~IsShortName(o.val)

\* class-strings of the safe occurrences of a file, in document order
RECURSIVE ParseClassNames(_)
ParseClassNames(content) ==
    IF content = <<>> THEN <<>>
    ELSE (IF Collectable(Head(content)) THEN <<Head(content).val>> ELSE <<>>)
             \o ParseClassNames(Tail(content))

\* the text of a file after replaceClassNamesInFile with mapping m
RewriteOcc(o, m) == IF Collectable(o) /\ MapHas(m, o.val)
                    THEN [dyn |-> FALSE, val |-> <<MapGet(m, o.val)>>]
                    ELSE o
RewriteContent(content, m) ==
    [i \in 1..Len(content) |-> RewriteOcc(content[i], m)]

(* -------------------- TwmapProcessor (processor.ts) ------------------- *)

VARIABLES
    mode, dryRun, input,      \* this.config.mode, this.dryRun, this.config.input
    disk,                     \* the source files, by path
    stylesheet,               \* the rules of the file at config.output
    mappings, gen,            \* this.mappings, this.classGenerator
    pc,                       \* where process() stands
    patIdx, allFiles,         \* findFiles: the loop index and the Set
    files, parseResults, settled,   \* the parse fan-out
    updIdx,                   \* the next successful parse to update
    allocLog,                 \* generateClassName calls since the last reset
    callAllocs,               \* generateClassName calls of this process()
    rewriteCalls,             \* replaceClassNamesInFile calls of this process()
    cssCalls,                 \* generateCSS calls of this process()
    outcome,                  \* "none", or how the last process() ended
    runs,                     \* process() calls so far
    faults,                   \* failures so far
    mainPc,                   \* where main() stands; "off" without the CLI
    caught,                   \* what main()'s catch block caught, or "none"
    constructed,              \* main() has constructed a TwmapProcessor
    exitCode,                 \* the exit code of the process, -1 while it runs
    processTx,                \* finish() calls on process()'s transaction, -1 without one
    mainTx,                   \* finish() calls on main()'s transaction, -1 without one
    other,                    \* mapping and generator of a second TwmapProcessor
    initialized, enabled,     \* the flags of the SentryService
    consoleLog,               \* lines written to the console
    sdkLog,                   \* calls made to the Sentry SDK
    returned,                 \* what the last call of the service returned
    apiCalls,                 \* the calls of the service and the logger so far
    progressArgs              \* arguments of the last logger.progress call

vars == <<mode, dryRun, input, disk, stylesheet, mappings, gen, pc, patIdx,
          allFiles, files, parseResults, settled, updIdx, allocLog,
          callAllocs, rewriteCalls, cssCalls, outcome, runs, faults,
          mainPc, caught, constructed, exitCode, processTx, mainTx, other,
          initialized, enabled, consoleLog, sdkLog, returned, apiCalls,
          progressArgs>>

mainVars == <<mainPc, caught, constructed, exitCode, mainTx>>
sentryVars == <<initialized, enabled, consoleLog, sdkLog, returned, apiCalls,
                progressArgs>>
otherVars == <<other, sentryVars>>
config == <<mode, dryRun, input>>
findVars == <<patIdx, allFiles>>
parseVars == <<files, parseResults, settled>>
genVars == <<mappings, gen, allocLog, callAllocs>>

Contents == UNION {[1..n -> OccPool] : n \in 0..MaxOcc}

\* variant: the failed results are not filtered out
AllParses(results) == results

\* parseResults.filter((r) => r.success)
SuccessfulParses(results) == SelectSeq(results, LAMBDA r : r.success)
FailedParses(results) == SelectSeq(results, LAMBDA r : ~r.success)

\* variant: only the first parse result is collected
CollectFirstOnly(acc, results) ==
    IF results = <<>> THEN acc ELSE AddAll(acc, Head(results).classNames)

\* the Set allClassNames, in insertion order
RECURSIVE CollectClassNames(_, _)
CollectClassNames(acc, results) ==
    IF results = <<>> THEN acc
    ELSE CollectClassNames(AddAll(acc, Head(results).classNames), Tail(results))

\* variant: the has() test is dropped
AlwaysNeedsName(m, className) == TRUE

\* if (!this.mappings.has(className))
NeedsName(m, className) == ~MapHas(m, className)

\* variant: a generator is constructed for every class name
RECURSIVE MapEachFreshGenerator(_, _, _)
MapEachFreshGenerator(st, md, names) ==
    IF names = <<>> THEN st
    ELSE LET className == Head(names)
             r == GenerateClassName(GenInit, md, className)
         IN IF ~MapHas(st.mappings, className)
            THEN MapEachFreshGenerator(
                     [mappings |-> MapSet(st.mappings, className, r.name),
                      gen      |-> r.gen,
                      log      |-> Append(st.log, [cls  |-> className,
                                                   name |-> r.name])],
                     md, Tail(names))
            ELSE MapEachFreshGenerator(st, md, Tail(names))

\* allClassNames.forEach: st is [mappings, gen, log]
RECURSIVE MapEach(_, _, _)
MapEach(st, md, names) ==
    IF names = <<>> THEN st
    ELSE LET className == Head(names)
             r == GenerateClassName(st.gen, md, className)
         IN IF NeedsName(st.mappings, className)
            THEN MapEach([mappings |-> MapSet(st.mappings, className, r.name),
                          gen      |-> r.gen,
                          log      |-> Append(st.log, [cls  |-> className,
                                                       name |-> r.name])],
                         md, Tail(names))
            ELSE MapEach(st, md, Tail(names))

GenerateMappings(st, md, results) ==
    MapEach(st, md, CollectClassNames(<<>>, results))

\* variant: the length test is dropped
AlwaysHasClassNames(result) == TRUE

\* if (result.classNames.length > 0)
HasClassNames(result) == Len(result.classNames) > 0

\* a processor as its constructor leaves it, over some files on disk
ProcessorInit ==
    /\ mode \in Modes
    /\ dryRun \in BOOLEAN
    /\ input \in InputChoices
    /\ disk \in {d \in [Files -> Contents] : SumLen(d, Files) <= MaxOcc}
    /\ stylesheet = <<>>
    /\ mappings = <<>>
    /\ gen = GenInit
    /\ pc = "idle"
    /\ patIdx = 1
    /\ allFiles = <<>>
    /\ files = <<>>
    /\ parseResults = <<>>
    /\ settled = {}
    /\ updIdx = 1
    /\ allocLog = <<>>
    /\ callAllocs = 0
    /\ rewriteCalls = <<>>
    /\ cssCalls = <<>>
    /\ outcome = "none"
    /\ runs = 0
    /\ faults = 0
    /\ processTx = -1

\* no second processor, and a SentryService that was never called
Unused ==
    /\ other = [mappings |-> <<>>, gen |-> GenInit]
    /\ initialized = FALSE
    /\ enabled = FALSE
    /\ consoleLog = <<>>
    /\ sdkLog = <<>>
    /\ returned = [op |-> "none", value |-> "none"]
    /\ apiCalls = <<>>
    /\ progressArgs = <<>>

\* the processor used as a library: main() is not running
Init ==
    /\ ProcessorInit
    /\ Unused
    /\ mainPc = "off"
    /\ caught = "none"
    /\ constructed = FALSE
    /\ exitCode = -1
    /\ mainTx = -1

\* process() is called
StartProcess ==
    /\ pc = "idle"
    /\ runs < MaxRuns
    /\ pc' = "findFiles"
    /\ runs' = runs + 1
    /\ patIdx' = 1
    /\ allFiles' = <<>>
    /\ files' = <<>>
    /\ parseResults' = <<>>
    /\ settled' = {}
    /\ updIdx' = 1
    /\ callAllocs' = 0
    /\ rewriteCalls' = <<>>
    /\ cssCalls' = <<>>
    /\ outcome' = "none"
    /\ processTx' = 0
    /\ UNCHANGED <<otherVars, mainVars, config, disk, stylesheet, mappings, gen, allocLog, faults>>

\* findFiles: glob resolves with the matches of one pattern, in some order
GlobMatches ==
    /\ pc = "findFiles"
    /\ patIdx <= Len(input)
    /\ \E matches \in Perms(input[patIdx]) :
           allFiles' = AddAll(allFiles, matches)
    /\ patIdx' = patIdx + 1
    /\ UNCHANGED <<processTx, otherVars, mainVars, config, disk, stylesheet, genVars, pc, parseVars, updIdx,
                   rewriteCalls, cssCalls, outcome, runs, faults>>

\* findFiles: glob rejects, the pattern is skipped with a warning
GlobFails ==
    /\ pc = "findFiles"
    /\ patIdx <= Len(input)
    /\ faults < MaxFaults
    /\ faults' = faults + 1
    /\ patIdx' = patIdx + 1
    /\ UNCHANGED <<processTx, otherVars, mainVars, config, disk, stylesheet, genVars, pc, allFiles, parseVars,
                   updIdx, rewriteCalls, cssCalls, outcome, runs>>

PendingResult(f) == [filePath |-> f, success |-> FALSE, classNames |-> <<>>]

\* findFiles returns, and files.map starts one parseFile per file
StartParsing ==
    /\ pc = "findFiles"
    /\ patIdx > Len(input)
    /\ files' = allFiles
    /\ parseResults' = [i \in 1..Len(allFiles) |-> PendingResult(allFiles[i])]
    /\ settled' = {}
    /\ pc' = "parsing"
    /\ UNCHANGED <<processTx, otherVars, mainVars, config, disk, stylesheet, genVars, findVars, updIdx,
                   rewriteCalls, cssCalls, outcome, runs, faults>>

\* what parseFile can resolve to for a file
ParseOutcomes(f) ==
    {[filePath |-> f, success |-> TRUE, classNames |-> ParseClassNames(disk[f])]}
      \cup {[filePath |-> f, success |-> FALSE, classNames |-> part] :
                part \in Prefixes(ParseClassNames(disk[f]))}

\* variant: the results are collected in the order the promises settle
ParseSettlesInCompletionOrder ==
    /\ pc = "parsing"
    /\ \E i \in (1..Len(files)) \ settled :
         \E r \in ParseOutcomes(files[i]) :
           /\ r.success \/ faults < MaxFaults
           /\ faults' = IF r.success THEN faults ELSE faults + 1
           /\ parseResults' = [parseResults EXCEPT ![Cardinality(settled) + 1] = r]
           /\ settled' = settled \cup {i}
    /\ UNCHANGED <<processTx, otherVars, mainVars, config, disk, stylesheet, genVars, pc, findVars, files,
                   updIdx, rewriteCalls, cssCalls, outcome, runs>>

\* one parseFile promise settles
ParseSettles ==
    /\ pc = "parsing"
    /\ \E i \in (1..Len(files)) \ settled :
         \E r \in ParseOutcomes(files[i]) :
           /\ r.success \/ faults < MaxFaults
           /\ faults' = IF r.success THEN faults ELSE faults + 1
           /\ parseResults' = [parseResults EXCEPT ![i] = r]
           /\ settled' = settled \cup {i}
    /\ UNCHANGED <<processTx, otherVars, mainVars, config, disk, stylesheet, genVars, pc, findVars, files,
                   updIdx, rewriteCalls, cssCalls, outcome, runs>>

\* variant: the first settled parse is enough
AnyParseSettled == settled # {}

\* Promise.all(files.map(parseFile)) has resolved
AllParsesSettled == settled = 1..Len(files)

\* variant: the mapping is built anew by every process() call
GenerateMappingsStepRebuilds ==
    /\ pc = "parsing"
    /\ AllParsesSettled
    /\ LET st == GenerateMappings([mappings |-> <<>>, gen |-> gen,
                                   log |-> allocLog],
                                  mode, SuccessfulParses(parseResults))
       IN /\ mappings' = st.mappings
          /\ gen' = st.gen
          /\ allocLog' = st.log
          /\ callAllocs' = Len(st.log) - Len(allocLog)
    /\ pc' = "updating"
    /\ updIdx' = 1
    /\ UNCHANGED <<processTx, otherVars, mainVars, config, disk, stylesheet, findVars, parseVars,
                   rewriteCalls, cssCalls, outcome, runs, faults>>

\* this.generateMappings(successfulParses)
GenerateMappingsStep ==
    /\ pc = "parsing"
    /\ AllParsesSettled
    /\ LET st == GenerateMappings([mappings |-> mappings, gen |-> gen,
                                   log |-> allocLog],
                                  mode, SuccessfulParses(parseResults))
       IN /\ mappings' = st.mappings
          /\ gen' = st.gen
          /\ allocLog' = st.log
          /\ callAllocs' = Len(st.log) - Len(allocLog)
    /\ pc' = "updating"
    /\ updIdx' = 1
    /\ UNCHANGED <<processTx, otherVars, mainVars, config, disk, stylesheet, findVars, parseVars,
                   rewriteCalls, cssCalls, outcome, runs, faults>>

\* variant: no try/catch around the rewriter, its error rejects process()
UpdateRewritesNoCatch ==
    /\ pc = "updating"
    /\ updIdx <= Len(SuccessfulParses(parseResults))
    /\ LET result == SuccessfulParses(parseResults)[updIdx]
           f == result.filePath
       IN /\ HasClassNames(result)
          /\ \E threw \in BOOLEAN :
               /\ ~threw \/ faults < MaxFaults
               /\ faults' = IF threw THEN faults + 1 ELSE faults
               /\ rewriteCalls' = Append(rewriteCalls,
                      [filePath |-> f, dryRun |-> dryRun, threw |-> threw])
               /\ disk' = IF threw \/ dryRun THEN disk
                          ELSE [disk EXCEPT ![f] = RewriteContent(disk[f], mappings)]
               /\ pc' = IF threw THEN "idle" ELSE pc
               /\ outcome' = IF threw THEN "error" ELSE outcome
    /\ updIdx' = updIdx + 1
    /\ processTx' = IF pc' = "idle" THEN processTx + 1 ELSE processTx
    /\ UNCHANGED <<otherVars, mainVars, config, stylesheet, genVars, findVars, parseVars,
                   cssCalls, runs>>

\* updateSourceFile: the rewriter is called for a file with class names
UpdateRewrites ==
    /\ pc = "updating"
    /\ updIdx <= Len(SuccessfulParses(parseResults))
    /\ LET result == SuccessfulParses(parseResults)[updIdx]
           f == result.filePath
       IN /\ HasClassNames(result)
          /\ \E threw \in BOOLEAN :
               /\ ~threw \/ faults < MaxFaults
               /\ faults' = IF threw THEN faults + 1 ELSE faults
               /\ rewriteCalls' = Append(rewriteCalls,
                      [filePath |-> f, dryRun |-> dryRun, threw |-> threw])
               /\ disk' = IF threw \/ dryRun THEN disk
                          ELSE [disk EXCEPT ![f] = RewriteContent(disk[f], mappings)]
    /\ updIdx' = updIdx + 1
    /\ UNCHANGED <<processTx, otherVars, mainVars, config, stylesheet, genVars, pc, findVars, parseVars,
                   cssCalls, outcome, runs>>

\* variant: a dry run passes over every file
UpdateSkipsInDryRun ==
    /\ pc = "updating"
    /\ updIdx <= Len(SuccessfulParses(parseResults))
    /\ dryRun \/ ~HasClassNames(SuccessfulParses(parseResults)[updIdx])
    /\ updIdx' = updIdx + 1
    /\ UNCHANGED <<processTx, otherVars, mainVars, config, disk, stylesheet, genVars, pc, findVars, parseVars,
                   rewriteCalls, cssCalls, outcome, runs, faults>>

\* updateSourceFile: a file without class names is passed over
UpdateSkips ==
    /\ pc = "updating"
    /\ updIdx <= Len(SuccessfulParses(parseResults))
    /\ ~HasClassNames(SuccessfulParses(parseResults)[updIdx])
    /\ updIdx' = updIdx + 1
    /\ UNCHANGED <<processTx, otherVars, mainVars, config, disk, stylesheet, genVars, pc, findVars, parseVars,
                   rewriteCalls, cssCalls, outcome, runs, faults>>

\* variant: generateCSSFile does not wait for the updates
UpdatesNotAwaited == TRUE

\* Promise.all(successfulParses.map(updateSourceFile)) has resolved
AllUpdatesSettled == updIdx > Len(SuccessfulParses(parseResults))

\* variant: the class-string is not sorted
NormalizedUnsorted(original) == original

\* original.split(/\s+/).filter(...).sort().join(" ")
Normalized(original) ==
    SelectSeq(original, LAMBDA t : t = "flex")
      \o SelectSeq(original, LAMBDA t : t = "p-4")
      \o SelectSeq(original, LAMBDA t : t \notin UtilityTokens)

\* variant: seenApply.set without the has() test, the last entry is kept
RECURSIVE SeenApplyLast(_, _)
SeenApplyLast(acc, m) ==
    IF m = <<>> THEN acc
    ELSE SeenApplyLast(
             IF \E i \in 1..Len(acc) :
                    Normalized(acc[i].original) = Normalized(Head(m).original)
             THEN [i \in 1..Len(acc) |->
                       IF Normalized(acc[i].original) = Normalized(Head(m).original)
                       THEN Head(m) ELSE acc[i]]
             ELSE Append(acc, Head(m)),
             Tail(m))

\* seenApply: the first entry of the mapping for each normalized value
RECURSIVE SeenApply(_, _)
SeenApply(acc, m) ==
    IF m = <<>> THEN acc
    ELSE SeenApply(IF \E i \in 1..Len(acc) :
                         Normalized(acc[i].original) = Normalized(Head(m).original)
                   THEN acc ELSE Append(acc, Head(m)),
                   Tail(m))
ClassMappings(m) == SeenApply(<<>>, m)

\* variant: generateCSSFile without the early return of a dry run
GenerateCSSDryRunStillGenerates ==
    /\ pc = "updating"
    /\ AllUpdatesSettled
    /\ dryRun
    /\ cssCalls' = Append(cssCalls, ClassMappings(mappings))
    /\ pc' = "cssWrite"
    /\ UNCHANGED <<processTx, otherVars, mainVars, config, disk, stylesheet, genVars, findVars, parseVars,
                   updIdx, rewriteCalls, outcome, runs, faults>>

\* generateCSSFile in a dry run: nothing is generated, process() completes
GenerateCSSDryRun ==
    /\ pc = "updating"
    /\ AllUpdatesSettled
    /\ dryRun
    /\ pc' = "idle"
    /\ outcome' = "ok"
    /\ processTx' = processTx + 1
    /\ UNCHANGED <<otherVars, mainVars, config, disk, stylesheet, genVars, findVars, parseVars,
                   updIdx, rewriteCalls, cssCalls, runs, faults>>

\* variant: the deduplication is done in this.mappings instead of seenApply
GenerateCSSCallInPlace ==
    /\ pc = "updating"
    /\ AllUpdatesSettled
    /\ ~dryRun
    /\ mappings' = ClassMappings(mappings)
    /\ cssCalls' = Append(cssCalls, ClassMappings(mappings))
    /\ pc' = "cssWrite"
    /\ UNCHANGED <<processTx, otherVars, mainVars, config, disk, stylesheet, gen, allocLog, callAllocs,
                   findVars, parseVars, updIdx, rewriteCalls, outcome, runs,
                   faults>>

\* generateCSSFile: cssGenerator.generateCSS is called with the deduplicated list
GenerateCSSCall ==
    /\ pc = "updating"
    /\ AllUpdatesSettled
    /\ ~dryRun
    /\ cssCalls' = Append(cssCalls, ClassMappings(mappings))
    /\ pc' = "cssWrite"
    /\ UNCHANGED <<processTx, otherVars, mainVars, config, disk, stylesheet, genVars, findVars, parseVars,
                   updIdx, rewriteCalls, outcome, runs, faults>>

\* variant: only the class-strings found in this call get a rule
CSSWrittenForThisCall ==
    /\ pc = "cssWrite"
    /\ stylesheet' = SelectSeq(cssCalls[Len(cssCalls)],
                       LAMBDA e : \E i \in 1..Len(parseResults) :
                           /\ parseResults[i].success
                           /\ \E n \in 1..Len(parseResults[i].classNames) :
                                  parseResults[i].classNames[n] = e.original)
    /\ pc' = "idle"
    /\ outcome' = "ok"
    /\ processTx' = processTx + 1
    /\ UNCHANGED <<otherVars, mainVars, config, disk, genVars, findVars, parseVars, updIdx,
                   rewriteCalls, cssCalls, runs, faults>>

\* generateCSS resolves: the stylesheet is written, process() completes
CSSWritten ==
    /\ pc = "cssWrite"
    /\ stylesheet' = cssCalls[Len(cssCalls)]
    /\ pc' = "idle"
    /\ outcome' = "ok"
    /\ processTx' = processTx + 1
    /\ UNCHANGED <<otherVars, mainVars, config, disk, genVars, findVars, parseVars, updIdx,
                   rewriteCalls, cssCalls, runs, faults>>

\* generateCSS rejects: process() rethrows
CSSWriteFails ==
    /\ pc = "cssWrite"
    /\ faults < MaxFaults
    /\ faults' = faults + 1
    /\ pc' = "idle"
    /\ outcome' = "error"
    /\ processTx' = processTx + 1
    /\ UNCHANGED <<otherVars, mainVars, config, disk, stylesheet, genVars, findVars, parseVars,
                   updIdx, rewriteCalls, cssCalls, runs>>

\* reset()
Reset ==
    /\ pc = "idle"
    /\ mappings' = <<>>
    /\ gen' = GenInit
    /\ allocLog' = <<>>
    /\ UNCHANGED <<processTx, otherVars, mainVars, config, disk, stylesheet, pc, findVars, parseVars, updIdx,
                   callAllocs, rewriteCalls, cssCalls, outcome, runs, faults>>

\* new TwmapProcessor(config, dryRun): the next invocation of the tool
Construct ==
    /\ pc = "idle"
    /\ outcome # "none"
    /\ mappings' = <<>>
    /\ gen' = GenInit
    /\ allocLog' = <<>>
    /\ callAllocs' = 0
    /\ rewriteCalls' = <<>>
    /\ cssCalls' = <<>>
    /\ outcome' = "none"
    /\ UNCHANGED <<processTx, otherVars, mainVars, config, disk, stylesheet, pc, findVars, parseVars, updIdx,
                   runs, faults>>

Next ==
    \/ StartProcess
    \/ GlobMatches
    \/ GlobFails
    \/ StartParsing
    \/ ParseSettles
    \/ GenerateMappingsStep
    \/ UpdateRewrites
    \/ UpdateSkips
    \/ GenerateCSSDryRun
    \/ GenerateCSSCall
    \/ CSSWritten
    \/ CSSWriteFails
    \/ Reset
    \/ Construct

Spec == Init /\ [][Next]_vars

(* ------------------------- main() (index.ts) -------------------------- *)

procVars == <<config, disk, stylesheet, genVars, pc, findVars, parseVars,
              updIdx, rewriteCalls, cssCalls, outcome, runs, faults, processTx>>

\* the CLI is started over some files and some configuration
MainInit ==
    /\ ProcessorInit
    /\ Unused
    /\ mainPc = "start"
    /\ caught = "none"
    /\ constructed = FALSE
    /\ exitCode = -1
    /\ mainTx = 0

\* --init: the sample config is created and main() returns
MainInitCommand ==
    /\ mainPc = "start"
    /\ mainPc' = "exited"
    /\ exitCode' = 0
    /\ mainTx' = mainTx + 1
    /\ UNCHANGED <<otherVars, procVars, caught, constructed>>

\* loadConfig returns and the CLI options are applied
MainLoadsConfig ==
    /\ mainPc = "start"
    /\ mainPc' = "loaded"
    /\ UNCHANGED <<mainTx, otherVars, procVars, caught, constructed, exitCode>>

\* loadConfig throws
MainLoadConfigFails ==
    /\ mainPc = "start"
    /\ caught' = "loadConfig"
    /\ mainPc' = "flushing"
    /\ UNCHANGED <<mainTx, otherVars, procVars, constructed, exitCode>>

\* validateConfig returns
MainValidates ==
    /\ mainPc = "loaded"
    /\ mainPc' = "validated"
    /\ UNCHANGED <<mainTx, otherVars, procVars, caught, constructed, exitCode>>

\* variant: the validation error is logged and main() goes on
MainValidateFailsIgnored ==
    /\ mainPc = "loaded"
    /\ caught' = "validateConfig"
    /\ mainPc' = "validated"
    /\ UNCHANGED <<mainTx, otherVars, procVars, constructed, exitCode>>

\* validateConfig throws
MainValidateFails ==
    /\ mainPc = "loaded"
    /\ caught' = "validateConfig"
    /\ mainPc' = "flushing"
    /\ UNCHANGED <<mainTx, otherVars, procVars, constructed, exitCode>>

\* new TwmapProcessor(config, dryRun), and process() is about to be called
MainConstructs ==
    /\ mainPc = "validated"
    /\ constructed' = TRUE
    /\ mainPc' = "processing"
    /\ UNCHANGED <<mainTx, otherVars, procVars, caught, exitCode>>

\* the steps of the one process() call main() awaits
MainProcessSteps ==
    /\ mainPc = "processing"
    /\ \/ (runs = 0 /\ StartProcess)
       \/ GlobMatches
       \/ GlobFails
       \/ StartParsing
       \/ ParseSettles
       \/ GenerateMappingsStep
       \/ UpdateRewrites
       \/ UpdateSkips
       \/ GenerateCSSDryRun
       \/ GenerateCSSCall
       \/ CSSWritten
       \/ CSSWriteFails

\* variant: the error of process() is caught and main() returns
MainReturnsAnyway ==
    /\ mainPc = "processing"
    /\ pc = "idle"
    /\ outcome # "none"
    /\ mainPc' = "exited"
    /\ exitCode' = 0
    /\ mainTx' = mainTx + 1
    /\ UNCHANGED <<otherVars, procVars, caught, constructed>>

\* await processor.process() resolves and main() returns
MainReturns ==
    /\ mainPc = "processing"
    /\ pc = "idle"
    /\ outcome = "ok"
    /\ mainPc' = "exited"
    /\ exitCode' = 0
    /\ mainTx' = mainTx + 1
    /\ UNCHANGED <<otherVars, procVars, caught, constructed>>

\* await processor.process() rejects: the catch block
MainCatches ==
    /\ mainPc = "processing"
    /\ pc = "idle"
    /\ outcome = "error"
    /\ caught' = "process"
    /\ mainPc' = "flushing"
    /\ UNCHANGED <<mainTx, otherVars, procVars, constructed, exitCode>>

\* await sentry.flush(); process.exit(1)
MainExitsWithError ==
    /\ mainPc = "flushing"
    /\ mainPc' = "exited"
    /\ exitCode' = 1
    /\ UNCHANGED <<mainTx, otherVars, procVars, caught, constructed>>

MainNext ==
    \/ MainInitCommand
    \/ MainLoadsConfig
    \/ MainLoadConfigFails
    \/ MainValidates
    \/ MainValidateFails
    \/ MainConstructs
    \/ MainProcessSteps
    \/ MainReturns
    \/ MainCatches
    \/ MainExitsWithError

MainSpec == MainInit /\ [][MainNext]_vars

(* ----------------------- two TwmapProcessor instances ------------------- *)

\* the successful parse results of the files on disk, listed in order p
ResultsInOrder(p) ==
    [i \in 1..Len(p) |->
         [filePath |-> p[i], success |-> TRUE,
          classNames |-> ParseClassNames(disk[p[i]])]]

\* variant: the second processor allocates from the generator of the first
OtherProcessSharedGenerator ==
    /\ \E p \in Perms(Files) :
         LET st == GenerateMappings([mappings |-> other.mappings, gen |-> gen,
                                     log |-> <<>>],
                                    mode, ResultsInOrder(p))
         IN /\ st.mappings # other.mappings
            /\ other' = [mappings |-> st.mappings, gen |-> other.gen]
            /\ gen' = st.gen
    /\ UNCHANGED <<sentryVars, mainVars, config, disk, stylesheet, mappings,
                   allocLog, callAllocs, pc, findVars, parseVars, updIdx,
                   rewriteCalls, cssCalls, outcome, runs, faults, processTx>>

\* process() of the second processor, up to its generateMappings, at any
\* point of the first processor's process()
OtherProcess ==
    /\ \E p \in Perms(Files) :
         LET st == GenerateMappings([mappings |-> other.mappings,
                                     gen |-> other.gen, log |-> <<>>],
                                    mode, ResultsInOrder(p))
         IN /\ st.mappings # other.mappings
            /\ other' = [mappings |-> st.mappings, gen |-> st.gen]
    /\ UNCHANGED <<sentryVars, mainVars, procVars>>

\* reset() of the second processor
OtherReset ==
    /\ other.mappings # <<>>
    /\ other' = [mappings |-> <<>>, gen |-> GenInit]
    /\ UNCHANGED <<sentryVars, mainVars, procVars>>

\* the steps of the first processor: one process() call, and reset()
ThisProcessor ==
    \/ (runs = 0 /\ StartProcess)
    \/ GlobMatches
    \/ StartParsing
    \/ ParseSettles
    \/ GenerateMappingsStep
    \/ UpdateRewrites
    \/ UpdateSkips
    \/ GenerateCSSDryRun
    \/ GenerateCSSCall
    \/ CSSWritten
    \/ Reset

TwoNext ==
    \/ ThisProcessor
    \/ OtherProcess
    \/ OtherReset

TwoSpec == Init /\ [][TwoNext]_vars

(* ------------------------ SentryService (sentry.ts) -------------------- *)

\* the processor is not used, and nothing is on disk
NoProcessor ==
    /\ ProcessorInit
    /\ mode = "hash"
    /\ ~dryRun
    /\ input = <<{"b.tsx"}, {"a.html"}>>
    /\ \A f \in Files : disk[f] = <<>>

\* the singleton as getInstance() creates it
SentryInit ==
    /\ NoProcessor
    /\ Unused
    /\ mainPc = "off"
    /\ caught = "none"
    /\ constructed = FALSE
    /\ exitCode = -1
    /\ mainTx = -1

ConfigDsns == {"", "https://custom"}
EnvDsns == {"", "https://env"}

\* process.env.SENTRY_DSN || "https://f99f..."
SENTRY_DSN(env) == IF env # "" THEN env ELSE "https://default"

\* config?.dsn || SENTRY_DSN
Dsn(configDsn, env) == IF configDsn # "" THEN configDsn ELSE SENTRY_DSN(env)

Returns(op, value) == returned' = [op |-> op, value |-> value]

\* variant: a failed Sentry.init leaves the service uninitialized
InitCallRetriesAfterFailure(configDsn, env, throws) ==
    /\ Len(apiCalls) < MaxCalls
    /\ apiCalls' = Append(apiCalls, "init")
    /\ Returns("init", "undefined")
    /\ IF initialized
       THEN UNCHANGED <<initialized, enabled, consoleLog, sdkLog>>
       ELSE IF Dsn(configDsn, env) = ""
       THEN /\ consoleLog' = Append(consoleLog, "warn: Sentry DSN not provided")
            /\ initialized' = TRUE
            /\ UNCHANGED <<enabled, sdkLog>>
       ELSE IF throws
       THEN /\ consoleLog' = Append(consoleLog, "warn: Failed to initialize Sentry")
            /\ UNCHANGED <<initialized, enabled, sdkLog>>
       ELSE /\ sdkLog' = sdkLog \o <<"init", "setInitialContext">>
            /\ enabled' = TRUE
            /\ initialized' = TRUE
            /\ consoleLog' = Append(consoleLog, "log: Sentry initialized successfully")
    /\ UNCHANGED <<progressArgs, other, mainVars, procVars>>

\* variant: init without the initialized guard
InitAgain(configDsn, env, throws) ==
    /\ Len(apiCalls) < MaxCalls
    /\ apiCalls' = Append(apiCalls, "init")
    /\ Returns("init", "undefined")
    /\ IF Dsn(configDsn, env) = ""
       THEN /\ consoleLog' = Append(consoleLog, "warn: Sentry DSN not provided")
            /\ initialized' = TRUE
            /\ UNCHANGED <<enabled, sdkLog>>
       ELSE IF throws
       THEN /\ consoleLog' = Append(consoleLog, "warn: Failed to initialize Sentry")
            /\ initialized' = TRUE
            /\ UNCHANGED <<enabled, sdkLog>>
       ELSE /\ sdkLog' = sdkLog \o <<"init", "setInitialContext">>
            /\ enabled' = TRUE
            /\ initialized' = TRUE
            /\ consoleLog' = Append(consoleLog, "log: Sentry initialized successfully")
    /\ UNCHANGED <<progressArgs, other, mainVars, procVars>>

\* init(config), where Sentry.init or setInitialContext may throw
InitCall(configDsn, env, throws) ==
    /\ Len(apiCalls) < MaxCalls
    /\ apiCalls' = Append(apiCalls, "init")
    /\ Returns("init", "undefined")
    /\ IF initialized
       THEN UNCHANGED <<initialized, enabled, consoleLog, sdkLog>>
       ELSE IF Dsn(configDsn, env) = ""
       THEN /\ consoleLog' = Append(consoleLog, "warn: Sentry DSN not provided")
            /\ initialized' = TRUE
            /\ UNCHANGED <<enabled, sdkLog>>
       ELSE IF throws
       THEN /\ consoleLog' = Append(consoleLog, "warn: Failed to initialize Sentry")
            /\ initialized' = TRUE
            /\ UNCHANGED <<enabled, sdkLog>>
       ELSE /\ sdkLog' = sdkLog \o <<"init", "setInitialContext">>
            /\ enabled' = TRUE
            /\ initialized' = TRUE
            /\ consoleLog' = Append(consoleLog, "log: Sentry initialized successfully")
    /\ UNCHANGED <<progressArgs, other, mainVars, procVars>>

SentryInitCalled ==
    \E configDsn \in ConfigDsns, env \in EnvDsns, throws \in BOOLEAN :
        InitCall(configDsn, env, throws)

\* variant: the capture goes to the SDK whether or not the service is enabled
CaptureUnguarded(op) ==
    /\ Len(apiCalls) < MaxCalls
    /\ apiCalls' = Append(apiCalls, op)
    /\ sdkLog' = Append(sdkLog, op)
    /\ Returns(op, "eventId")
    /\ UNCHANGED <<initialized, enabled, consoleLog, progressArgs, other,
                   mainVars, procVars>>

\* captureException, captureMessage
Capture(op) ==
    /\ Len(apiCalls) < MaxCalls
    /\ apiCalls' = Append(apiCalls, op)
    /\ IF ~enabled
       THEN /\ Returns(op, "undefined")
            /\ UNCHANGED sdkLog
       ELSE /\ sdkLog' = Append(sdkLog, op)
            /\ Returns(op, "eventId")
    /\ UNCHANGED <<initialized, enabled, consoleLog, progressArgs, other,
                   mainVars, procVars>>

CaptureCalled == \E op \in {"captureException", "captureMessage"} : Capture(op)

\* addBreadcrumb, setTag, setContext
Annotate(op) ==
    /\ Len(apiCalls) < MaxCalls
    /\ apiCalls' = Append(apiCalls, op)
    /\ sdkLog' = IF enabled THEN Append(sdkLog, op) ELSE sdkLog
    /\ Returns(op, "undefined")
    /\ UNCHANGED <<initialized, enabled, consoleLog, progressArgs, other,
                   mainVars, procVars>>

AnnotateCalled == \E op \in {"addBreadcrumb", "setTag", "setContext"} : Annotate(op)

\* startTransaction: the mock, or the wrapper of a span
StartTransaction ==
    /\ Len(apiCalls) < MaxCalls
    /\ apiCalls' = Append(apiCalls, "startTransaction")
    /\ IF ~enabled
       THEN /\ Returns("startTransaction", "mock")
            /\ UNCHANGED sdkLog
       ELSE /\ sdkLog' = Append(sdkLog, "startSpan")
            /\ Returns("startTransaction", "span")
    /\ UNCHANGED <<initialized, enabled, consoleLog, progressArgs, other,
                   mainVars, procVars>>

TransactionMethods == {"setTag", "setData", "setContext", "addBreadcrumb", "finish"}

\* the transaction just returned by startTransaction
Transaction ==
    IF returned.op \in {"startTransaction", "transaction"}
    THEN returned.value ELSE "none"

\* what a method of the span wrapper calls in the SDK
SpanCalls(method) ==
    CASE method = "setTag" -> <<"span.setAttributes", "setTag">>
      [] method = "setData" -> <<"span.setAttributes", "setContext">>
      [] method = "setContext" -> <<"setContext">>
      [] method = "addBreadcrumb" -> IF enabled THEN <<"addBreadcrumb">> ELSE <<>>
      [] method = "finish" -> <<"span.end">>

\* a method of the transaction is called
TransactionCall(method) ==
    /\ Len(apiCalls) < MaxCalls
    /\ apiCalls' = Append(apiCalls, "transaction." \o method)
    /\ Transaction # "none"
    /\ sdkLog' = IF Transaction = "mock" THEN sdkLog ELSE sdkLog \o SpanCalls(method)
    /\ returned' = [op |-> "transaction", value |-> Transaction]
    /\ UNCHANGED <<initialized, enabled, consoleLog, progressArgs, other,
                   mainVars, procVars>>

TransactionCalled == \E method \in TransactionMethods : TransactionCall(method)

\* variant: the error of the SDK call is not caught
DrainUncaught(op, outcomeOfSdk) ==
    /\ Len(apiCalls) < MaxCalls
    /\ apiCalls' = Append(apiCalls, op)
    /\ IF ~enabled
       THEN /\ Returns(op, "true")
            /\ UNCHANGED <<sdkLog, consoleLog>>
       ELSE /\ sdkLog' = Append(sdkLog, op \o " -> " \o outcomeOfSdk)
            /\ UNCHANGED consoleLog
            /\ Returns(op, IF outcomeOfSdk = "throws" THEN "rejected" ELSE outcomeOfSdk)
    /\ UNCHANGED <<initialized, enabled, progressArgs, other, mainVars, procVars>>

\* flush, close: what the promise settles to
Drain(op, outcomeOfSdk) ==
    /\ Len(apiCalls) < MaxCalls
    /\ apiCalls' = Append(apiCalls, op)
    /\ IF ~enabled
       THEN /\ Returns(op, "true")
            /\ UNCHANGED <<sdkLog, consoleLog>>
       ELSE /\ sdkLog' = Append(sdkLog, op \o " -> " \o outcomeOfSdk)
            /\ IF outcomeOfSdk = "throws"
               THEN /\ consoleLog' = Append(consoleLog, "warn: Failed to " \o op)
                    /\ Returns(op, "false")
               ELSE /\ UNCHANGED consoleLog
                    /\ Returns(op, outcomeOfSdk)
    /\ UNCHANGED <<initialized, enabled, progressArgs, other, mainVars, procVars>>

DrainCalled ==
    \E op \in {"flush", "close"}, outcomeOfSdk \in {"true", "false", "throws"} :
        Drain(op, outcomeOfSdk)

SentryNext ==
    \/ SentryInitCalled
    \/ CaptureCalled
    \/ AnnotateCalled
    \/ StartTransaction
    \/ TransactionCalled
    \/ DrainCalled

SentrySpec == SentryInit /\ [][SentryNext]_vars

(* --------------------------- logger.progress --------------------------- *)

Max(a, b) == IF a >= b THEN a ELSE b

\* Math.max(1, Math.floor(total / 10))
ProgressStep(total) == Max(1, total \div 10)

\* Math.round((current / total) * 100), halves rounded up
Percentage(current, total) == (200 * current + total) \div (2 * total)

\* `Progress: ${operation} ${current}/${total} (${percentage}%)`
ProgressMessage(a) ==
    "Progress: " \o a.operation \o " " \o ToString(a.current) \o "/"
        \o ToString(a.total) \o " (" \o ToString(Percentage(a.current, a.total))
        \o "%)"

\* variant: only the multiples of the step are logged
LogsAtStepsOnly(current, total) == current % ProgressStep(total) = 0

\* current % Math.max(1, Math.floor(total / 10)) === 0 || current === total
LogsProgress(current, total) ==
    current % ProgressStep(total) = 0 \/ current = total

\* an initialized service, enabled or not, and the arguments of a call
ProgressInit ==
    /\ NoProcessor
    /\ mainPc = "off"
    /\ caught = "none"
    /\ constructed = FALSE
    /\ exitCode = -1
    /\ mainTx = -1
    /\ other = [mappings |-> <<>>, gen |-> GenInit]
    /\ initialized = TRUE
    /\ enabled \in BOOLEAN
    /\ consoleLog = <<>>
    /\ sdkLog = <<>>
    /\ returned = [op |-> "none", value |-> "none"]
    /\ apiCalls = <<>>
    /\ progressArgs \in [operation : {"processing"}, current : 0..MaxTotal,
                          total : 1..MaxTotal]

\* logger.progress(operation, current, total)
LoggerProgress ==
    /\ apiCalls = <<>>
    /\ apiCalls' = <<"logger.progress", "addBreadcrumb">>
    /\ consoleLog' = IF LogsProgress(progressArgs.current, progressArgs.total)
                     THEN Append(consoleLog, "log: " \o ProgressMessage(progressArgs))
                     ELSE consoleLog
    /\ sdkLog' = IF enabled
                 THEN Append(sdkLog, "addBreadcrumb: " \o ProgressMessage(progressArgs))
                 ELSE sdkLog
    /\ Returns("addBreadcrumb", "undefined")
    /\ UNCHANGED <<initialized, enabled, progressArgs, other, mainVars, procVars>>

ProgressNext == LoggerProgress

ProgressSpec == ProgressInit /\ [][ProgressNext]_vars

TypeOK ==
    /\ pc \in {"idle", "findFiles", "parsing", "updating", "cssWrite"}
    /\ outcome \in {"none", "ok", "error"}
    /\ runs \in 0..MaxRuns

(* ------------------------------ claims -------------------------------- *)

\* generateMappings has returned and process() has not yet completed
AfterMapping == pc \in {"updating", "cssWrite"}

\* class-strings listed in the successful parse results of this process()
ListedClassNames ==
    UNION {Range(parseResults[i].classNames) :
               i \in {j \in 1..Len(parseResults) : parseResults[j].success}}

EntriesFor(cn) == {i \in 1..Len(mappings) : mappings[i].original = cn}

\* C1: after generateMappings, every class-string listed in a successful
\* parse result is a key of the mapping with exactly one entry, and no
\* class-string was ever given two different short names since the last reset.
C1_EveryClassStringOneName ==
    AfterMapping =>
        /\ \A cn \in ListedClassNames : Cardinality(EntriesFor(cn)) = 1
        /\ \A i, j \in 1..Len(allocLog) :
               allocLog[i].cls = allocLog[j].cls
                   => allocLog[i].name = allocLog[j].name
        /\ \A i \in 1..Len(allocLog) :
               MapHas(mappings, allocLog[i].cls)
                   /\ MapGet(mappings, allocLog[i].cls) = allocLog[i].name

\* two successful parse results list the same class-string, which is
\* mapped once
C1_Witness ==
    /\ AfterMapping
    /\ Len(parseResults) = 2
    /\ parseResults[1].success /\ parseResults[2].success
    /\ Range(parseResults[1].classNames) \cap Range(parseResults[2].classNames) # {}
    /\ Len(mappings) = 1
    /\ callAllocs = 1

\* C2: two different keys of the mapping never hold the same short name,
\* whatever the generation mode.
C2_Bijection ==
    \A i, j \in 1..Len(mappings) :
        i # j => /\ mappings[i].original # mappings[j].original
                 /\ mappings[i].generated # mappings[j].generated

\* two class-strings with the same truncated fingerprint are both mapped
C2_Witness ==
    /\ mode = "hash"
    /\ MapHas(mappings, <<"flex", "p-4">>)
    /\ MapHas(mappings, <<"p-4", "flex">>)
    /\ HashName(<<"flex", "p-4">>) = HashName(<<"p-4", "flex">>)

\* C3: generateClassName is called at most once per distinct class-string
\* between resets; in incremental mode the n-th call returns prefix + (n-1)
\* and the counter equals the number of calls, so a class-string met again
\* (in another file, or in a later process()) keeps its name.
C3_OneAllocationPerClassString ==
    /\ \A i, j \in 1..Len(allocLog) :
           allocLog[i].cls = allocLog[j].cls => i = j
    /\ mode = "incremental" =>
           /\ gen.counter = Len(allocLog)
           /\ \A i \in 1..Len(allocLog) :
                  allocLog[i].name = IncrementalName(i - 1)

\* the second process() of one processor meets, in both files, the
\* class-string the first process() named tw-0, and allocates nothing
C3_Witness ==
    /\ mode = "incremental"
    /\ runs = 2
    /\ AfterMapping
    /\ Len(parseResults) = 2
    /\ \E cn \in StaticValues :
           /\ parseResults[1].success /\ cn \in Range(parseResults[1].classNames)
           /\ parseResults[2].success /\ cn \in Range(parseResults[2].classNames)
           /\ MapHas(mappings, cn) /\ MapGet(mappings, cn) = "tw-0"
    /\ callAllocs = 0
    /\ Len(allocLog) = 1

\* C4: no step changes a dynamic occurrence of any file: it stays at its
\* position with its text.
C4_DynamicUntouched ==
    [][\A f \in Files : \A i \in 1..Len(disk[f]) :
           disk[f][i].dyn =>
               /\ Len(disk'[f]) = Len(disk[f])
               /\ disk'[f][i] = disk[f][i]]_vars

\* a file was rewritten around its dynamic occurrence
C4_Witness ==
    \E f \in Files :
        /\ \E i \in 1..Len(disk[f]) : disk[f][i].dyn
        /\ \E i \in 1..Len(disk[f]) : ~disk[f][i].dyn /\ IsShortName(disk[f][i].val)
        /\ \E k \in 1..Len(rewriteCalls) :
               rewriteCalls[k].filePath = f /\ ~rewriteCalls[k].threw

\* the file's parse succeeded and listed no class-string
ZeroClassStrings(f) ==
    \E i \in 1..Len(parseResults) :
        /\ parseResults[i].filePath = f
        /\ parseResults[i].success
        /\ parseResults[i].classNames = <<>>

\* C5: while process() updates the files, a file whose parse result lists
\* no class-string is not handed to replaceClassNamesInFile and its text
\* does not change, in a dry run and in a real run.
C5_ZeroClassStringsUntouched ==
    [][\A f \in Files :
           (pc = "updating" /\ ZeroClassStrings(f)) =>
               /\ disk'[f] = disk[f]
               /\ \A k \in 1..Len(rewriteCalls') :
                      rewriteCalls'[k].filePath # f]_vars

\* a file holding only a dynamic occurrence was passed over while the
\* other file was rewritten
C5_Witness ==
    /\ pc = "updating"
    /\ AllUpdatesSettled
    /\ \E f \in Files :
           /\ disk[f] = <<[dyn |-> TRUE, val |-> DynamicValue]>>
           /\ ZeroClassStrings(f)
    /\ Len(rewriteCalls) = 1

\* C6: a static value that is a short name is never rewritten again and
\* is never submitted to the name generator, so a run over rewritten files
\* changes none of them and allocates no name for a short name.
C6_NoDoubleRewrite ==
    [][/\ \A f \in Files : \A i \in 1..Len(disk[f]) :
              (~disk[f][i].dyn /\ IsShortName(disk[f][i].val)) =>
                  /\ Len(disk'[f]) = Len(disk[f])
                  /\ disk'[f][i] = disk[f][i]
       /\ \A k \in 1..Len(allocLog') : ~IsShortName(allocLog'[k].cls)
       /\ \A k \in 1..Len(mappings') : ~IsShortName(mappings'[k].original)]_vars

\* a second process(), started with an empty mapping, has run over two
\* rewritten files: both parsed, nothing was mapped, no rewriter call
C6_Witness ==
    /\ runs = 2
    /\ pc = "updating"
    /\ AllUpdatesSettled
    /\ Len(parseResults) = 2
    /\ \A f \in Files :
           /\ \E i \in 1..Len(disk[f]) :
                  ~disk[f][i].dyn /\ IsShortName(disk[f][i].val)
           /\ ZeroClassStrings(f)
    /\ mappings = <<>>
    /\ rewriteCalls = <<>>

\* C7: generateClassName is called only when every parseFile promise of
\* this process() has settled.
C7_MappingAfterAllParses ==
    [][Len(allocLog') > Len(allocLog) =>
           /\ Len(parseResults) = Len(files)
           /\ \A i \in 1..Len(files) : i \in settled]_vars

\* names were generated in a process() over two files
C7_Witness ==
    /\ AfterMapping
    /\ Len(files) = 2
    /\ callAllocs = 2

\* C8: from the return of generateMappings to the end of process(), no
\* step changes the mapping or the generator.
C8_MappingReadOnly ==
    [][AfterMapping => mappings' = mappings /\ gen' = gen]_vars

\* the stylesheet write is pending: the rewrites are over, the mapping
\* holds two token-reordered keys and the emitter got one pair
C8_Witness ==
    /\ pc = "cssWrite"
    /\ Len(mappings) = 2
    /\ Len(cssCalls[1]) = 1
    /\ Len(rewriteCalls) = 2

\* the results in the order of their file paths
SortedByPath(results) ==
    SelectSeq(results, LAMBDA r : PathRank[r.filePath] = 1)
      \o SelectSeq(results, LAMBDA r : PathRank[r.filePath] = 2)

AsPairs(m) == {<<m[i].original, m[i].generated>> : i \in 1..Len(m)}

\* C9: in incremental mode the mapping a fresh processor generates is the
\* one it would generate from the same parse results fed in file-path
\* order, so that the numbering does not depend on the order in which the
\* files were discovered.
C9_NumberingIndependentOfDiscovery ==
    (mode = "incremental" /\ AfterMapping /\ callAllocs = Len(allocLog)) =>
        AsPairs(mappings) =
            AsPairs(GenerateMappings(
                        [mappings |-> <<>>, gen |-> GenInit, log |-> <<>>],
                        mode,
                        SortedByPath(SuccessfulParses(parseResults))).mappings)

\* the file's parse failed in this process()
ParseFailed(f) ==
    \E i \in 1..Len(parseResults) :
        parseResults[i].filePath = f /\ i \in settled /\ ~parseResults[i].success

\* C10: a file whose parse failed is never handed to the rewriter and no
\* name is generated for a class-string that only it holds; when process()
\* has completed, every successfully parsed file with class-strings was
\* handed to the rewriter, a real run has called the stylesheet emitter
\* once, and process() has thrown only after that call, never in a dry run.
C10_ParseFailureIsolated ==
    /\ \A k \in 1..Len(rewriteCalls) : ~ParseFailed(rewriteCalls[k].filePath)
    /\ AfterMapping =>
           \A k \in (Len(allocLog) - callAllocs + 1)..Len(allocLog) :
               allocLog[k].cls \in ListedClassNames
    /\ (pc = "idle" /\ outcome # "none") =>
           /\ \A i \in 1..Len(parseResults) :
                  (parseResults[i].success /\ parseResults[i].classNames # <<>>)
                      => \E k \in 1..Len(rewriteCalls) :
                             rewriteCalls[k].filePath = parseResults[i].filePath
           /\ Len(cssCalls) = IF dryRun THEN 0 ELSE 1
           /\ outcome = "error" => ~dryRun

\* one file failed to parse after some class-strings were collected; the
\* other was mapped and rewritten, the stylesheet written, process() is done
C10_Witness ==
    /\ pc = "idle"
    /\ outcome = "ok"
    /\ ~dryRun
    /\ Len(parseResults) = 2
    /\ \E f \in Files :
           /\ ParseFailed(f)
           /\ ParseClassNames(disk[f]) # <<>>
    /\ Len(rewriteCalls) = 1
    /\ ~rewriteCalls[1].threw
    /\ stylesheet = cssCalls[1]
    /\ stylesheet # <<>>

\* process() has completed, and no processor was constructed since
Completed == pc = "idle" /\ outcome # "none"

\* the rewriter was called for the file in this process()
RewriterCalledFor(f) ==
    \E k \in 1..Len(rewriteCalls) : rewriteCalls[k].filePath = f

\* C11: a rewriter call that throws stops nothing: once the updates are
\* over, the rewriter has been called for every successfully parsed file
\* with class-strings; a completed real run has called the stylesheet
\* emitter, and a completed dry run has not thrown.
C11_RewriteFailureIsolated ==
    /\ (pc = "cssWrite" \/ Completed) =>
           \A i \in 1..Len(parseResults) :
               (parseResults[i].success /\ parseResults[i].classNames # <<>>)
                   => RewriterCalledFor(parseResults[i].filePath)
    /\ Completed =>
           /\ ~dryRun => Len(cssCalls) = 1
           /\ dryRun => outcome = "ok"

\* the first rewrite threw, the second file was rewritten all the same,
\* the stylesheet was written and process() returned
C11_Witness ==
    /\ Completed
    /\ outcome = "ok"
    /\ ~dryRun
    /\ Len(rewriteCalls) = 2
    /\ rewriteCalls[1].threw
    /\ ~rewriteCalls[2].threw
    /\ \E i \in 1..Len(disk[rewriteCalls[2].filePath]) :
           IsShortName(disk[rewriteCalls[2].filePath][i].val)
    /\ stylesheet = cssCalls[1]
    /\ stylesheet # <<>>

\* main() has exited after its one process() call completed
ExitedAfterProcess == mainPc = "exited" /\ runs = 1

\* C12: the exit code follows the stylesheet alone: the CLI exits with 1
\* when process() threw, which happens only out of the stylesheet write of
\* a real run, and with 0 when process() returned, whatever parse or
\* rewrite failed; then a real run has written the stylesheet it built.
C12_OutcomeFollowsStylesheet ==
    ExitedAfterProcess =>
        /\ exitCode = 1 <=> outcome = "error"
        /\ exitCode = 0 <=> outcome = "ok"
        /\ outcome = "error" =>
               /\ caught = "process"
               /\ ~dryRun
               /\ Len(cssCalls) = 1
        /\ (outcome = "ok" /\ ~dryRun) =>
               /\ Len(cssCalls) = 1
               /\ stylesheet = cssCalls[1]

\* the stylesheet write failed after a file was rewritten: exit code 1
C12_Witness ==
    /\ ExitedAfterProcess
    /\ exitCode = 1
    /\ caught = "process"
    /\ cssCalls[1] # <<>>
    /\ stylesheet = <<>>
    /\ \E k \in 1..Len(rewriteCalls) : ~rewriteCalls[k].threw

\* C13: when validateConfig has thrown, no processor is constructed, no
\* file is discovered, parsed or rewritten, no stylesheet is written, and
\* the CLI exits with code 1.
C13_InvalidConfigFatal ==
    caught = "validateConfig" =>
        /\ ~constructed
        /\ runs = 0 /\ pc = "idle"
        /\ allFiles = <<>> /\ files = <<>> /\ parseResults = <<>>
        /\ rewriteCalls = <<>> /\ cssCalls = <<>>
        /\ mappings = <<>> /\ stylesheet = <<>>
        /\ \A f \in Files : \A i \in 1..Len(disk[f]) :
               disk[f][i].dyn \/ ~IsShortName(disk[f][i].val)
        /\ mainPc \in {"flushing", "exited"}
        /\ mainPc = "exited" => exitCode = 1

\* the CLI has exited with 1 on an invalid configuration, over files that
\* hold class-strings
C13_Witness ==
    /\ caught = "validateConfig"
    /\ mainPc = "exited"
    /\ exitCode = 1
    /\ \E f \in Files : ParseClassNames(disk[f]) # <<>>

\* C14: in a dry run no step of the processor calls generateCSS, every
\* call of the rewriter carries the dry-run flag, and no step changes a
\* source file or the stylesheet.
C14_DryRunWritesNothing ==
    [][dryRun =>
          /\ cssCalls' = <<>>
          /\ \A k \in 1..Len(rewriteCalls') : rewriteCalls'[k].dryRun
          /\ disk' = disk
          /\ stylesheet' = stylesheet]_vars

\* a dry run has completed: the rewriter was called without error for a
\* file that still holds its class-strings, and a mapping exists
C14_Witness ==
    /\ dryRun
    /\ Completed
    /\ mappings # <<>>
    /\ stylesheet = <<>>
    /\ \E k \in 1..Len(rewriteCalls) :
           /\ ~rewriteCalls[k].threw
           /\ ParseClassNames(disk[rewriteCalls[k].filePath]) # <<>>

\* successfulParses.filter((result) => result.classNames.length > 0)
ChangedFiles(results) ==
    {results[i].filePath :
         i \in {j \in 1..Len(results) :
                    results[j].success /\ results[j].classNames # <<>>}}

\* every entry of the mapping was generated by the current process() call
MappedByThisCall == mappings # <<>> /\ Len(mappings) = callAllocs

\* files the rewriter was called for in the current process() call
RewriterFiles == {rewriteCalls[k].filePath : k \in 1..Len(rewriteCalls)}

\* C15: a dry run computes the plan of a real run: the mapping a process()
\* call builds from an empty processor, and the set of files it hands to
\* the rewriter, are functions of the mode and the parse results alone,
\* the same whether dryRun is set or not.
C15_DryRunSamePlan ==
    /\ MappedByThisCall =>
           mappings = GenerateMappings([mappings |-> <<>>, gen |-> GenInit,
                                        log |-> <<>>],
                                       mode, SuccessfulParses(parseResults)).mappings
    /\ (pc = "cssWrite" \/ Completed) =>
           RewriterFiles = ChangedFiles(parseResults)

\* a dry run has completed with a mapping of two entries and has handed a
\* file to the rewriter, while another file was left out of the plan
C15_Witness ==
    /\ dryRun
    /\ Completed
    /\ MappedByThisCall
    /\ Len(mappings) = 2
    /\ RewriterFiles # {}
    /\ Len(parseResults) = 2
    /\ RewriterFiles # {parseResults[i].filePath : i \in 1..Len(parseResults)}

\* entries of a list of pairs whose class-string has the canonical form of cn
WithCanonicalForm(list, cn) ==
    {k \in 1..Len(list) : Normalized(list[k].original) = Normalized(cn)}

\* the list generateCSS was last called with
EmitterList == cssCalls[Len(cssCalls)]

\* C16: the list handed to generateCSS holds exactly one pair for every
\* canonical form occurring among the keys of the mapping, and that pair is
\* the first entry of the mapping, in insertion order, with that form.
C16_OnePairPerCanonicalForm ==
    pc = "cssWrite" =>
        /\ \A i \in 1..Len(mappings) :
               Cardinality(WithCanonicalForm(EmitterList, mappings[i].original)) = 1
        /\ \A k \in 1..Len(EmitterList) :
               \E i \in 1..Len(mappings) :
                   /\ mappings[i] = EmitterList[k]
                   /\ \A j \in 1..(i - 1) :
                          Normalized(mappings[j].original)
                              # Normalized(mappings[i].original)

\* generateCSS is called while two keys of the mapping share a canonical form
C16_Witness ==
    /\ pc = "cssWrite"
    /\ Len(mappings) = 2
    /\ mappings[1].original # mappings[2].original
    /\ Normalized(mappings[1].original) = Normalized(mappings[2].original)
    /\ EmitterList = <<mappings[1]>>

\* a real run has completed and written its stylesheet
WroteStylesheet == Completed /\ outcome = "ok" /\ ~dryRun

\* C17: after a real run has written the stylesheet, every entry of the
\* mapping has exactly one rule in the stylesheet whose class-string has
\* the canonical form of the entry's class-string.
C17_StylesheetComplete ==
    WroteStylesheet =>
        \A i \in 1..Len(mappings) :
            Cardinality(WithCanonicalForm(stylesheet, mappings[i].original)) = 1

\* a second real run of one processor finds the files already rewritten and
\* still emits the rule of the entry mapped by the first run
C17_Witness ==
    /\ WroteStylesheet
    /\ runs = 2
    /\ callAllocs = 0
    /\ mappings # <<>>
    /\ Len(stylesheet) = Len(mappings)
    /\ \A i \in 1..Len(parseResults) : parseResults[i].classNames = <<>>

\* class-strings a and b hold the same tokens, in any order
SameTokens(a, b) ==
    /\ Len(a) = Len(b)
    /\ \A t \in Range(a) \cup Range(b) :
           Cardinality({i \in 1..Len(a) : a[i] = t})
               = Cardinality({i \in 1..Len(b) : b[i] = t})

\* indexes i < j of two keys of the mapping that are reorderings of each other
Reorderings ==
    {p \in (1..Len(mappings)) \X (1..Len(mappings)) :
         /\ p[1] < p[2]
         /\ SameTokens(mappings[p[1]].original, mappings[p[2]].original)}

\* rules of the stylesheet whose class-string is a reordering of cn
RulesFor(cn) == {k \in 1..Len(stylesheet) : SameTokens(stylesheet[k].original, cn)}

\* a file whose rewrite did not throw holds short name n
WrittenIntoSource(n) ==
    \E k \in 1..Len(rewriteCalls) :
        /\ ~rewriteCalls[k].threw
        /\ \E i \in 1..Len(disk[rewriteCalls[k].filePath]) :
               disk[rewriteCalls[k].filePath][i].val = <<n>>

\* C18: class-strings that differ only in token order are distinct keys with
\* distinct short names; the stylesheet has one rule for them, that of the
\* earlier key, and the later key's short name is the selector of no rule,
\* although the rewriter writes it into every file it rewrote that listed
\* the later key.
C18_ReorderingLeavesDanglingName ==
    WroteStylesheet =>
        \A p \in Reorderings :
            LET first == mappings[p[1]]
                later == mappings[p[2]]
            IN /\ first.original # later.original
               /\ first.generated # later.generated
               /\ Cardinality(RulesFor(first.original)) = 1
               /\ \A k \in RulesFor(first.original) : stylesheet[k] = first
               /\ \A k \in 1..Len(stylesheet) :
                      stylesheet[k].generated # later.generated
               /\ \A k \in 1..Len(rewriteCalls) :
                      (/\ ~rewriteCalls[k].threw
                       /\ \E i \in 1..Len(parseResults) :
                              /\ parseResults[i].success
                              /\ parseResults[i].filePath = rewriteCalls[k].filePath
                              /\ later.original \in Range(parseResults[i].classNames))
                          => \E n \in 1..Len(disk[rewriteCalls[k].filePath]) :
                                 disk[rewriteCalls[k].filePath][n].val
                                     = <<later.generated>>

\* "flex p-4" and "p-4 flex" were both mapped; the short name of the later
\* one is in a source file and in no rule of the one-rule stylesheet
C18_Witness ==
    /\ WroteStylesheet
    /\ Reorderings # {}
    /\ Len(stylesheet) = 1
    /\ \E p \in Reorderings :
           /\ WrittenIntoSource(mappings[p[2]].generated)
           /\ WrittenIntoSource(mappings[p[1]].generated)
           /\ stylesheet[1].generated = mappings[p[1]].generated

\* what process() logs before it returns: the counts of files and parse
\* results, the statistics of the mapping and, in a dry run, the files that
\* would be updated
Summary ==
    [filesProcessed   |-> Len(files),
     successfulParses |-> Len(SuccessfulParses(parseResults)),
     failedParses     |-> Len(FailedParses(parseResults)),
     mappingsGenerated |-> Len(mappings),
     changedFiles     |-> IF dryRun THEN ChangedFiles(parseResults) ELSE {}]

\* positions of the occurrences of the successfully parsed files
ParsedOccurrences ==
    {p \in Files \X (1..MaxOcc) :
         /\ \E i \in 1..Len(parseResults) :
                parseResults[i].success /\ parseResults[i].filePath = p[1]
         /\ p[2] <= Len(disk[p[1]])}

\* number of safe occurrences, the ones a run replaces
StaticCount ==
    Cardinality({p \in ParsedOccurrences : Collectable(disk[p[1]][p[2]])})

\* number of dynamic occurrences, the ones a run skips
DynamicCount ==
    Cardinality({p \in ParsedOccurrences : disk[p[1]][p[2]].dyn})

\* C19: the summary of a completed dry run over one static and one dynamic
\* occurrence carries the number of occurrences that would be replaced and
\* the number skipped as dynamic: one and one.
C19_ReportsReplacedAndSkipped ==
    (/\ Completed /\ dryRun
     /\ StaticCount = 1
     /\ DynamicCount = 1) =>
        /\ {"replaced", "skipped"} \subseteq DOMAIN Summary
        /\ Summary.replaced = StaticCount
        /\ Summary.skipped = DynamicCount

\* no entry of the mapping is removed or changed by the step
KeepsEntries ==
    /\ Len(mappings') >= Len(mappings)
    /\ \A i \in 1..Len(mappings) : mappings'[i] = mappings[i]

\* C20: a step of one processor that is not reset() removes no entry of the
\* mapping and changes no short name (getMappings() returns a copy and is a
\* step that changes nothing); reset() leaves the mapping empty and the
\* generator as constructed.
C20_ClearedOnlyByReset ==
    [][/\ Reset => (mappings' = <<>> /\ gen' = GenInit)
       /\ ~(Reset \/ Construct) => KeepsEntries]_vars

\* a second process() call without reset() has added an entry to the one
\* the first call had mapped
C20_Witness ==
    /\ runs = 2
    /\ AfterMapping
    /\ Len(mappings) = 2
    /\ callAllocs = 1
    /\ Len(allocLog) = 2

\* C26: generateCSS is called at most once per process() call, and only
\* after the rewriter has been called for every file of the plan and each
\* call has returned or thrown; so when the stylesheet write has failed,
\* every file whose rewrite did not throw holds no authored class-string.
C26_EmissionAfterRewrites ==
    /\ Len(cssCalls) <= 1
    /\ cssCalls # <<>> =>
           /\ AllUpdatesSettled
           /\ RewriterFiles = ChangedFiles(parseResults)
    /\ (Completed /\ outcome = "error") =>
           /\ Len(cssCalls) = 1
           /\ \A k \in 1..Len(rewriteCalls) :
                  ~rewriteCalls[k].threw
                      => ParseClassNames(disk[rewriteCalls[k].filePath]) = <<>>

\* the stylesheet write has failed after two files were rewritten
C26_Witness ==
    /\ Completed
    /\ outcome = "error"
    /\ Len(rewriteCalls) = 2
    /\ \A k \in 1..2 :
           /\ ~rewriteCalls[k].threw
           /\ \E i \in 1..Len(disk[rewriteCalls[k].filePath]) :
                  IsShortName(disk[rewriteCalls[k].filePath][i].val)

\* class-strings passed to generateClassName by this process() call, in order
SubmittedByThisCall ==
    [k \in 1..callAllocs |-> allocLog[Len(allocLog) - callAllocs + k].cls]

\* class-strings that were keys of the mapping when this process() call began
MappedBefore == {allocLog[j].cls : j \in 1..(Len(allocLog) - callAllocs)}

\* C27: whatever the order in which the parseFile promises settle, each
\* result sits at the index of its file in the discovered list, and the
\* class-strings are passed to the generator in the order of that list and
\* of the class-strings inside each result.
C27_OrderIndependentOfCompletion ==
    /\ pc = "parsing" =>
           /\ Len(parseResults) = Len(files)
           /\ \A i \in 1..Len(files) :
                  IF i \in settled
                  THEN parseResults[i].filePath = files[i]
                  ELSE parseResults[i] = PendingResult(files[i])
    /\ AfterMapping =>
           /\ Len(parseResults) = Len(files)
           /\ \A i \in 1..Len(files) : parseResults[i].filePath = files[i]
           /\ SubmittedByThisCall
                  = SelectSeq(CollectClassNames(<<>>, SuccessfulParses(parseResults)),
                              LAMBDA cn : cn \notin MappedBefore)

\* the parse of the second file has settled with a class-string while the
\* parse of the first file is still pending
C27_Witness ==
    /\ pc = "parsing"
    /\ Len(files) = 2
    /\ settled = {2}
    /\ parseResults[2].success
    /\ parseResults[2].classNames # <<>>
    /\ ParseClassNames(disk[files[1]]) # <<>>

NoDuplicates(seq) ==
    \A i, j \in 1..Len(seq) : i # j => seq[i] # seq[j]

\* C28: a file is listed once however many patterns match it, so it is
\* parsed once and handed to the rewriter at most once per process() call;
\* the discovered files are those of all patterns but the ones whose glob
\* failed.
C28_EachFileOnce ==
    /\ NoDuplicates(allFiles)
    /\ NoDuplicates(files)
    /\ NoDuplicates([k \in 1..Len(rewriteCalls) |-> rewriteCalls[k].filePath])
    /\ Len(parseResults) = Len(files)
    /\ pc \in {"parsing", "updating", "cssWrite"} =>
           \E failed \in SUBSET (1..Len(input)) :
               /\ Cardinality(failed) <= faults
               /\ Range(files) = UNION {input[q] : q \in (1..Len(input)) \ failed}

\* a.html matches both patterns and has been handed to the rewriter, once
C28_Witness ==
    /\ input = <<{"a.html"}, {"a.html", "b.tsx"}>>
    /\ Completed
    /\ Len(files) = 2
    /\ faults = 0
    /\ \E k \in 1..Len(rewriteCalls) : rewriteCalls[k].filePath = "a.html"

\* C30: when the process has ended, finish() was called exactly once on the
\* transaction of main() and exactly once on the transaction of process(),
\* if process() was called; and process()'s transaction is finished once
\* as soon as process() has returned or thrown.
C30_TransactionsFinishedOnce ==
    /\ (pc = "idle" /\ runs > 0) => processTx = 1
    /\ mainPc = "exited" =>
           /\ mainTx = 1
           /\ processTx = IF runs > 0 THEN 1 ELSE -1

\* C21: a step that changes the mapping or the generator of one processor
\* leaves the mapping and the generator of the other processor as they were.
C21_InstancesIndependent ==
    [][/\ other' # other => (mappings' = mappings /\ gen' = gen)
       /\ (mappings' # mappings \/ gen' # gen) => other' = other]_vars

\* in incremental mode both processors have given their first name, the
\* same one, to different class-strings
C21_Witness ==
    /\ mode = "incremental"
    /\ mappings # <<>>
    /\ other.mappings # <<>>
    /\ mappings[1].generated = other.mappings[1].generated
    /\ mappings[1].original # other.mappings[1].original

\* the step is a call of the service's method op
Calls(op) == apiCalls' = Append(apiCalls, op)

\* C22: an init call on an initialized service, whatever its configuration,
\* changes neither flag, writes nothing to the console and calls nothing in
\* the SDK.
C22_InitIdempotent ==
    [][(initialized /\ Calls("init")) =>
           /\ initialized' = initialized
           /\ enabled' = enabled
           /\ consoleLog' = consoleLog
           /\ sdkLog' = sdkLog]_vars

\* init succeeded, a flush reached the SDK, and init was called again
C22_Witness ==
    /\ apiCalls = <<"init", "flush", "init">>
    /\ enabled
    /\ Len(sdkLog) = 3
    /\ consoleLog = <<"log: Sentry initialized successfully">>

ReportingCalls ==
    {"captureException", "captureMessage", "addBreadcrumb", "setTag",
     "setContext", "startTransaction"}
      \cup {"transaction." \o method : method \in TransactionMethods}

\* C23: while the service is disabled a reporting call has no effect:
\* nothing reaches the SDK or the console and the flags stay; the captures
\* return undefined, startTransaction returns the mock, and the methods of
\* the mock return without effect.
C23_DisabledIsNoOp ==
    [][(~enabled /\ \E op \in ReportingCalls : Calls(op)) =>
           /\ sdkLog' = sdkLog
           /\ consoleLog' = consoleLog
           /\ enabled' = enabled /\ initialized' = initialized
           /\ (Calls("captureException") \/ Calls("captureMessage"))
                  => returned'.value = "undefined"
           /\ Calls("startTransaction") => returned'.value = "mock"
           /\ (\E method \in TransactionMethods : Calls("transaction." \o method))
                  => returned'.value = "mock"]_vars

\* after a failed init: a capture, a transaction and its finish, and
\* nothing has reached the SDK
C23_Witness ==
    /\ apiCalls = <<"init", "captureException", "startTransaction",
                    "transaction.finish">>
    /\ initialized
    /\ ~enabled
    /\ sdkLog = <<>>
    /\ returned = [op |-> "transaction", value |-> "mock"]

\* C24: flush and close settle to a boolean: true when the service is
\* disabled, else what the SDK call resolved to, and false when it threw.
C24_DrainResolvesBoolean ==
    returned.op \in {"flush", "close"} =>
        /\ returned.value \in {"true", "false"}
        /\ ~enabled => returned.value = "true"
        /\ enabled =>
               /\ sdkLog[Len(sdkLog)] = returned.op \o " -> true"
                      => returned.value = "true"
               /\ sdkLog[Len(sdkLog)] = returned.op \o " -> false"
                      => returned.value = "false"
               /\ sdkLog[Len(sdkLog)] = returned.op \o " -> throws"
                      => returned.value = "false"
               /\ sdkLog[Len(sdkLog)] \in
                      {returned.op \o " -> " \o r : r \in {"true", "false", "throws"}}

\* Sentry.close threw on an enabled service and close resolved to false
C24_Witness ==
    /\ enabled
    /\ returned = [op |-> "close", value |-> "false"]
    /\ sdkLog[Len(sdkLog)] = "close -> throws"
    /\ consoleLog[Len(consoleLog)] = "warn: Failed to close"

InitFailed == \E i \in 1..Len(consoleLog) :
                  consoleLog[i] = "warn: Failed to initialize Sentry"

\* C29: enabled implies initialized; once initialized, no call changes
\* either flag; and once an init has failed the service is never enabled.
C29_FlagsSettleOnce ==
    /\ [](enabled => initialized)
    /\ [](InitFailed => ~enabled)
    /\ [][initialized => (initialized' /\ enabled' = enabled)]_vars

\* the first init failed and a second init was called: still disabled
C29_Witness ==
    /\ apiCalls = <<"init", "init">>
    /\ InitFailed
    /\ initialized
    /\ ~enabled
    /\ Len(consoleLog) = 1

\* logger.progress has been called
ProgressCalled == apiCalls # <<>> /\ apiCalls[1] = "logger.progress"

\* the line a call with percentage p writes
ProgressLine(p) ==
    "log: Progress: " \o progressArgs.operation \o " "
        \o ToString(progressArgs.current) \o "/" \o ToString(progressArgs.total)
        \o " (" \o ToString(p) \o "%)"

====
